---------------------------- MODULE Spec2Model ----------------------------
(***************************************************************************)
(* wallpaper-aligner: the display geometry (src/src/display.rs), the       *)
(* resize policy and the compositing run of main (src/src/main.rs).        *)
(*                                                                         *)
(* The specifications share the variables:                                 *)
(*   Spec     one run of main over an enumerated monitor layout            *)
(*   FairSpec Spec with the progress a sequential run makes                *)
(*   SpecGeom get_display_configuration followed by normalize, over every  *)
(*            layout of grid rectangles                                    *)
(*   SpecNorm DisplayConfiguration::normalize applied twice to an          *)
(*            arbitrary configuration                                      *)
(*   SpecFit  the Fit-mode destination size as a pure function             *)
(***************************************************************************)
EXTENDS Integers, Sequences, FiniteSets

VARIABLES
    pc,        \* position of the run in main
    args,      \* Args: show_displays, overwrite, mode, images
    exists,    \* Path::new(&args.output).exists()
    monitors,  \* the RECTs the operating system hands to the callback, in order
    config,    \* DisplayConfiguration
    hist,      \* the configurations normalize was called on, in call order
    output,    \* the canvas (RgbImage), NoImage before it is allocated
    idx,       \* number of slots the compositing loop has visited
    slotLog,   \* what happened to each visited slot
    encoded,   \* outcome of turbojpeg::compress_image
    written,   \* TRUE once std::fs::write has produced the output file
    fitArgs,   \* SpecFit: source size and display resolution
    fitRes     \* SpecFit: the computed destination

vars == <<pc, args, exists, monitors, config, hist, output, idx, slotLog,
          encoded, written, fitArgs, fitRes>>

---------------------------------------------------------------------------
(* Bounds of the model *)

MaxCoord == 2
MaxMonitors == 2
MaxImages == 3
MaxDim == 7

---------------------------------------------------------------------------
(* display.rs: Rectangle, Display, DisplayConfiguration *)

Rectangle(x0, x1, y0, y1) == [min_x |-> x0, max_x |-> x1, min_y |-> y0, max_y |-> y1]

\* #[derive(Default)]: every field 0, no displays
DefaultConfiguration == [bounds |-> Rectangle(0, 0, 0, 0), displays |-> <<>>]

\* `v as u32` of an i32: a negative value wraps to v + 2^32, which is beyond
\* every canvas; it is kept here as the largest representable integer.
AsU32(v) == IF v >= 0 THEN v ELSE 2147483647

Resolution(r) == <<AsU32(r.max_x - r.min_x), AsU32(r.max_y - r.min_y)>>

RectNormalizeKeepsMin(r) ==
    [min_x |-> r.min_x, max_x |-> r.max_x - r.min_x,
     min_y |-> r.min_y, max_y |-> r.max_y - r.min_y]

RectNormalize(r) ==
    [min_x |-> 0, max_x |-> r.max_x - r.min_x,
     min_y |-> 0, max_y |-> r.max_y - r.min_y]

MoveByMinOnly(r, x, y) ==
    [min_x |-> r.min_x + x, max_x |-> r.max_x,
     min_y |-> r.min_y + y, max_y |-> r.max_y]

\* i32 additions; a virtual desktop's coordinates are far from the i32 limits
MoveBy(r, x, y) ==
    [min_x |-> r.min_x + x, max_x |-> r.max_x + x,
     min_y |-> r.min_y + y, max_y |-> r.max_y + y]

NormalizeTowardsMin(c) ==
    [bounds   |-> RectNormalize(c.bounds),
     displays |-> [i \in DOMAIN c.displays |->
                      MoveBy(c.displays[i], c.bounds.min_x, c.bounds.min_y)]]

\* DisplayConfiguration::normalize: every display is moved by the bounds'
\* minimum as it is before the call, then the bounds are normalized.
Normalize(c) ==
    [bounds   |-> RectNormalize(c.bounds),
     displays |-> [i \in DOMAIN c.displays |->
                      MoveBy(c.displays[i], 0 - c.bounds.min_x, 0 - c.bounds.min_y)]]

Min(a, b) == IF a <= b THEN a ELSE b
Max(a, b) == IF a >= b THEN a ELSE b

\* get_display_configuration::callback: widen the bounds by the monitor's
\* RECT (left, right, top, bottom) and push the display.
Callback(c, rect) ==
    [bounds   |-> Rectangle(Min(c.bounds.min_x, rect.min_x),
                            Max(c.bounds.max_x, rect.max_x),
                            Min(c.bounds.min_y, rect.min_y),
                            Max(c.bounds.max_y, rect.max_y)),
     displays |-> Append(c.displays, rect)]

---------------------------------------------------------------------------
(* f32 arithmetic of the Fit branch.  A positive f32 is <<m, e>>, standing *)
(* for m * 2^e with 2^23 <= m < 2^24 (24 significant bits).  The integers  *)
(* converted are below 2^24, so `as f32` is exact.                         *)

TwoPow23 == 8388608
TwoPow24 == 2 * TwoPow23

RECURSIVE Pow2(_)
Pow2(n) == IF n <= 0 THEN 1 ELSE 2 * Pow2(n - 1)

\* long division a / b, one quotient bit at a time, until 24 bits are there:
\* a * 2^s = q * b + r
RECURSIVE DivBits(_, _, _, _)
DivBits(q, r, b, s) ==
    IF q >= TwoPow23 THEN <<q, r, s>>
    ELSE DivBits(2 * q + ((2 * r) \div b), (2 * r) % b, b, s + 1)

\* a as f32 / b as f32, round to nearest, ties to even
F32Div(a, b) ==
    LET d  == DivBits(a \div b, a % b, b, 0)
        q  == d[1]
        r  == d[2]
        s  == d[3]
        up == (2 * r > b) \/ (2 * r = b /\ q % 2 = 1)
        m  == IF up THEN q + 1 ELSE q
    IN  IF m = TwoPow24 THEN <<TwoPow23, 1 - s>> ELSE <<m, 0 - s>>

\* a as f32 / f for an f32 f: the mantissas divide, the exponents subtract
F32DivF(a, f) ==
    LET d == F32Div(a, f[1]) IN <<d[1], d[2] - f[2]>>

\* f32::round (half away from zero) followed by `as u32`
F32RoundU32(f) ==
    LET m == f[1]
        k == 0 - f[2]
    IN  IF k <= 0 THEN m * Pow2(0 - k)
        ELSE IF k >= 25 THEN 0
        ELSE (m + Pow2(k - 1)) \div Pow2(k)

\* a - b > f32::EPSILON, with a - b rounded to f32 as the subtraction does.
\* f32::EPSILON = 2^-23; the rounded difference exceeds it exactly when the
\* difference exceeds 2^-23 + 2^-47, the midpoint to the next f32 (the tie
\* goes to the even mantissa, which is that of 2^-23).  For exponents two or
\* more apart a - b > a / 2, far above the epsilon for every ratio of
\* dimensions below 2^20.
ExceedsByEpsilon(a, b) ==
    LET D == a[2] - b[2]
        N == a[1] * Pow2(D) - b[1]
        t == b[2] + 47
    IN  IF D <= (0 - 1) THEN FALSE
        ELSE IF D >= 2 THEN TRUE
        ELSE IF N <= 0 \/ t <= (0 - 1) THEN FALSE
        ELSE IF t >= 25 THEN TRUE
        ELSE IF t = 0 THEN N > TwoPow24 + 1
        ELSE N > Pow2(24 - t)

FitTieToWidth(sw, sh, dw, dh) ==
    LET width_ratio  == F32Div(sw, dw)
        height_ratio == F32Div(sh, dh)
    IN  IF ~ExceedsByEpsilon(height_ratio, width_ratio)
        THEN [w |-> dw, h |-> F32RoundU32(F32DivF(sh, width_ratio)), branch |-> "width"]
        ELSE [w |-> F32RoundU32(F32DivF(sw, height_ratio)), h |-> dh, branch |-> "height"]

\* ResizeMode::Fit arm of dest_res; branch names the arm of the `if` taken
Fit(sw, sh, dw, dh) ==
    LET width_ratio  == F32Div(sw, dw)
        height_ratio == F32Div(sh, dh)
    IN  IF ExceedsByEpsilon(width_ratio, height_ratio)
        THEN [w |-> dw, h |-> F32RoundU32(F32DivF(sh, width_ratio)), branch |-> "width"]
        ELSE [w |-> F32RoundU32(F32DivF(sw, height_ratio)), h |-> dh, branch |-> "height"]

\* dest_res for the three modes (branch "exact": the display's resolution)
DestRes(mode, sw, sh, dw, dh) ==
    IF mode \in {"Stretch", "Fill"}
    THEN [w |-> dw, h |-> dh, branch |-> "exact"]
    ELSE Fit(sw, sh, dw, dh)

---------------------------------------------------------------------------
(* The canvas.  An RgbImage is its size and the rectangles written into    *)
(* it, in order; a pixel shows the last write that covers it, and black    *)
(* (the zeroed buffer of RgbImage::new) where nothing was written.         *)

NoImage == [allocated |-> FALSE, width |-> 0, height |-> 0, paints |-> <<>>]

\* RgbImage::new(width, height)
NewImage(res) == [allocated |-> TRUE, width |-> res[1], height |-> res[2], paints |-> <<>>]

Paint(img, slot, what, x, y, w, h) ==
    [img EXCEPT !.paints = Append(@, [slot |-> slot, what |-> what,
                                      x |-> x, y |-> y, w |-> w, h |-> h])]

CopyFromClipped(img, slot, w, h, x, y) ==
    IF img.width < w + x \/ img.height < h + y
    THEN [ok |-> FALSE,
          image |-> Paint(img, slot, "image", x, y,
                          Max(0, Min(w, img.width - x)), Max(0, Min(h, img.height - y)))]
    ELSE [ok |-> TRUE, image |-> Paint(img, slot, "image", x, y, w, h)]

\* GenericImage::copy_from as main calls it: the bounds are checked before
\* any pixel is written
CopyFrom(img, slot, w, h, x, y) ==
    IF img.width < w + x \/ img.height < h + y
    THEN [ok |-> FALSE, image |-> img]
    ELSE [ok |-> TRUE, image |-> Paint(img, slot, "image", x, y, w, h)]

\* imageproc draw_filled_rect_mut: the rectangle is intersected with the
\* image and the intersection is filled
DrawFilledRect(img, slot, x, y, w, h) ==
    LET x0 == Max(x, 0)
        y0 == Max(y, 0)
        x1 == Min(x + w, img.width)
        y1 == Min(y + h, img.height)
    IN  IF x0 < x1 /\ y0 < y1
        THEN Paint(img, slot, "color", x0, y0, x1 - x0, y1 - y0)
        ELSE img

\* placement of the resized image: the display's minimum cast to u32, moved
\* by half the slack on each axis where the image is smaller
Offset(display, display_res, dest) ==
    <<AsU32(display.min_x)
        + (IF dest.w < display_res[1] THEN (display_res[1] - dest.w) \div 2 ELSE 0),
      AsU32(display.min_y)
        + (IF dest.h < display_res[2] THEN (display_res[2] - dest.h) \div 2 ELSE 0)>>

---------------------------------------------------------------------------
(* Inputs *)

Black == <<0, 0, 0>>
Red == <<255, 0, 0>>

ImageArg == [kind |-> "Image", rgb |-> <<>>]
ColorArg(c) == [kind |-> "Color", rgb |-> c]

\* "" parses to Color(BLACK), "#FF0000" to a colour, anything else that opens
\* to an Image
WallpaperArguments == {ImageArg, ColorArg(Black), ColorArg(Red)}

Modes == {"Stretch", "Fill", "Fit"}

SeqsUpTo(S, n) == UNION {[1..k -> S] : k \in 0..n}

ArgChoices ==
    [show_displays : BOOLEAN, overwrite : BOOLEAN, mode : Modes,
     images : SeqsUpTo(WallpaperArguments, MaxImages)]

\* natural sizes a decoded source may have
SrcSizes == {<<2, 1>>, <<1, 2>>, <<2048, 768>>, <<1920, 1080>>}

DecodeError == <<0, 0>>

\* monitor layouts the enumeration may deliver
Layouts ==
    { <<>>,
      <<Rectangle(0, 1024, 0, 768)>>,
      <<Rectangle(0, 1920, 0, 1080), Rectangle(1920, 3840, 0, 1080)>>,
      <<Rectangle(0, 1920, 0, 1080), Rectangle(0 - 512, 512, 0 - 768, 0)>>,
      <<Rectangle(0 - 1920, 0, 0, 1080), Rectangle(0, 1920, 0, 1080),
        Rectangle(1920, 3840, 0, 1080)>>,
      <<Rectangle(100, 1124, 50, 818)>>,
      <<Rectangle(0, 5119, 0, 2560), Rectangle(5119, 6143, 0, 768)>>,
      <<Rectangle(0 - 1024, 0, 0, 768), Rectangle(0, 5119, 0, 2560)>>,
      <<Rectangle(0, 4, 0, 4), Rectangle(2, 6, 2, 6)>> }

---------------------------------------------------------------------------
(* One run of main *)

Init ==
    /\ pc = "start"
    /\ args \in ArgChoices
    /\ exists \in BOOLEAN
    /\ monitors \in Layouts
    /\ config = DefaultConfiguration
    /\ hist = <<>>
    /\ output = NoImage
    /\ idx = 0
    /\ slotLog = <<>>
    /\ encoded = "none"
    /\ written = FALSE
    /\ fitArgs = <<0, 0, 0, 0>>
    /\ fitRes = [w |-> 0, h |-> 0, branch |-> "none"]

\* main, up to the call of get_display_configuration
MainStart ==
    /\ pc = "start"
    /\ pc' = IF ~args.show_displays /\ args.images = <<>> THEN "done" ELSE "enum"
    /\ UNCHANGED <<args, exists, monitors, config, hist, output, idx, slotLog,
                   encoded, written, fitArgs, fitRes>>

\* EnumDisplayMonitors calls the callback for the next monitor
EnumCallback ==
    /\ pc = "enum"
    /\ Len(config.displays) < Len(monitors)
    /\ config' = Callback(config, monitors[Len(config.displays) + 1])
    /\ UNCHANGED <<pc, args, exists, monitors, hist, output, idx, slotLog,
                   encoded, written, fitArgs, fitRes>>

\* EnumDisplayMonitors returns Ok: get_display_configuration returns data.0
EnumOk ==
    /\ pc = "enum"
    /\ Len(config.displays) = Len(monitors)
    /\ pc' = "enumerated"
    /\ UNCHANGED <<args, exists, monitors, config, hist, output, idx, slotLog,
                   encoded, written, fitArgs, fitRes>>

\* EnumDisplayMonitors returns an error: panic!
EnumFail ==
    /\ pc = "enum"
    /\ pc' = "panic"
    /\ UNCHANGED <<args, exists, monitors, config, hist, output, idx, slotLog,
                   encoded, written, fitArgs, fitRes>>

CountsDifferOnlyFewerImages(c, a) == Len(c.displays) > Len(a.images)

\* config.displays.len() != args.images.len()
CountsDiffer(c, a) == Len(c.displays) # Len(a.images)

\* show_displays, the empty-images return and the count check
CheckCounts ==
    /\ pc = "enumerated"
    /\ pc' = IF args.images = <<>> \/ CountsDiffer(config, args) THEN "done"
             ELSE "overwrite"
    /\ UNCHANGED <<args, exists, monitors, config, hist, output, idx, slotLog,
                   encoded, written, fitArgs, fitRes>>

\* one round of the overwrite loop: the user confirms, or declines and the
\* output name is whatever the second prompt leaves
OverwritePrompt ==
    /\ pc = "overwrite"
    /\ ~args.overwrite /\ exists
    /\ \E answer \in BOOLEAN, e \in BOOLEAN :
          /\ args' = [args EXCEPT !.overwrite = answer]
          /\ exists' = IF answer THEN exists ELSE e
    /\ UNCHANGED <<pc, monitors, config, hist, output, idx, slotLog,
                   encoded, written, fitArgs, fitRes>>

\* config.normalize() and the allocation of the canvas
NormalizeAndAllocate ==
    /\ pc = "overwrite"
    /\ args.overwrite \/ ~exists
    /\ hist' = Append(hist, config)
    /\ config' = Normalize(config)
    /\ output' = NewImage(Resolution(Normalize(config).bounds))
    /\ pc' = "compose"
    /\ UNCHANGED <<args, exists, monitors, idx, slotLog, encoded, written,
                   fitArgs, fitRes>>

\* the loop moves on to the next slot
Continue(outcome, canvas) ==
    /\ idx' = idx + 1
    /\ slotLog' = Append(slotLog, outcome)
    /\ output' = canvas
    /\ pc' = "compose"

SlotFailedReturns(reason) ==
    /\ idx' = idx + 1
    /\ slotLog' = Append(slotLog, reason)
    /\ output' = output
    /\ pc' = "done"

\* a failed step of an Image slot: println!, continue
SlotFailed(reason) == Continue(reason, output)

\* the Image arm: guess the format, decode, resize, copy
ImageSlot(display, display_res, format_ok, decoded, resize_ok) ==
    IF ~format_ok THEN SlotFailed("format_err")
    ELSE IF decoded = DecodeError THEN SlotFailed("decode_err")
    ELSE LET dest == DestRes(args.mode, decoded[1], decoded[2],
                             display_res[1], display_res[2])
             off  == Offset(display, display_res, dest)
             copy == CopyFrom(output, idx + 1, dest.w, dest.h, off[1], off[2])
         IN  IF ~resize_ok THEN SlotFailed("resize_err")
             ELSE IF copy.ok THEN Continue("painted", copy.image)
             ELSE Continue("copy_err", copy.image)

\* the Color arm: black is skipped, any other colour fills the display
ColorSlot(display, display_res, color) ==
    IF color = Black THEN Continue("skipped", output)
    ELSE Continue("filled",
                  DrawFilledRect(output, idx + 1, display.min_x, display.min_y,
                                 display_res[1], display_res[2]))

\* one iteration of the compositing loop
ProcessSlot ==
    /\ pc = "compose"
    /\ idx < Len(args.images)
    /\ IF idx + 1 > Len(config.displays)
       THEN /\ pc' = "panic"
            /\ UNCHANGED <<idx, slotLog, output>>
       ELSE LET display     == config.displays[idx + 1]
                display_res == Resolution(display)
                arg         == args.images[idx + 1]
            IN  IF arg.kind = "Image"
                THEN \E format_ok \in BOOLEAN, decoded \in SrcSizes \cup {DecodeError},
                        resize_ok \in BOOLEAN :
                        ImageSlot(display, display_res, format_ok, decoded, resize_ok)
                ELSE ColorSlot(display, display_res, arg.rgb)
    /\ UNCHANGED <<args, exists, monitors, config, hist, encoded, written,
                   fitArgs, fitRes>>

\* turbojpeg::compress_image, once the loop is over
Encode ==
    /\ pc = "compose"
    /\ idx >= Len(args.images)
    /\ \E ok \in BOOLEAN :
          /\ encoded' = IF ok THEN "ok" ELSE "error"
          /\ pc' = IF ok THEN "write" ELSE "done"
    /\ UNCHANGED <<args, exists, monitors, config, hist, output, idx, slotLog,
                   written, fitArgs, fitRes>>

\* std::fs::write
WriteFile ==
    /\ pc = "write"
    /\ \E ok \in BOOLEAN : written' = ok
    /\ pc' = "done"
    /\ UNCHANGED <<args, exists, monitors, config, hist, output, idx, slotLog,
                   encoded, fitArgs, fitRes>>

Next ==
    \/ MainStart
    \/ EnumCallback
    \/ EnumOk
    \/ EnumFail
    \/ CheckCounts
    \/ OverwritePrompt
    \/ NormalizeAndAllocate
    \/ ProcessSlot
    \/ Encode
    \/ WriteFile

Spec == Init /\ [][Next]_vars

\* a sequential run does not stop in the middle of the loop or before the
\* encode
FairSpec == Spec /\ WF_vars(ProcessSlot) /\ WF_vars(Encode)

---------------------------------------------------------------------------
(* get_display_configuration followed by normalize, over grid layouts:     *)
(* x coordinates range over -1..MaxCoord, y coordinates over -1..1, every  *)
(* monitor has a positive width and height; the first slot is an image in  *)
(* Stretch or Fill mode, every other slot a colour fill.                   *)

XCoords == (0 - 1)..MaxCoord
YCoords == (0 - 1)..1

GridRects ==
    {Rectangle(x0, x1, y0, y1) : x0 \in XCoords, x1 \in XCoords, y0 \in YCoords, y1 \in YCoords}

ProperRects == {r \in GridRects : r.min_x < r.max_x /\ r.min_y < r.max_y}

GridLayouts == SeqsUpTo(ProperRects, MaxMonitors) \ {<<>>}

InitGeom ==
    /\ pc = "start"
    /\ monitors \in GridLayouts
    /\ \E m \in {"Stretch", "Fill"} :
          args = [show_displays |-> FALSE, overwrite |-> TRUE, mode |-> m,
                  images |-> [i \in 1..Len(monitors) |->
                                 IF i = 1 THEN ImageArg ELSE ColorArg(Red)]]
    /\ exists = FALSE
    /\ config = DefaultConfiguration
    /\ hist = <<>>
    /\ output = NoImage
    /\ idx = 0
    /\ slotLog = <<>>
    /\ encoded = "none"
    /\ written = FALSE
    /\ fitArgs = <<0, 0, 0, 0>>
    /\ fitRes = [w |-> 0, h |-> 0, branch |-> "none"]

NextGeom ==
    \/ MainStart
    \/ EnumCallback
    \/ EnumOk
    \/ CheckCounts
    \/ NormalizeAndAllocate
    \/ ProcessSlot

SpecGeom == InitGeom /\ [][NextGeom]_vars

---------------------------------------------------------------------------
(* DisplayConfiguration::normalize on an arbitrary configuration: the      *)
(* bounds need not be the union of the displays.                           *)

InitNorm ==
    /\ pc = "norm"
    /\ config \in [bounds : ProperRects, displays : SeqsUpTo(ProperRects, MaxMonitors)]
    /\ hist = <<>>
    /\ monitors = <<>>
    /\ args = [show_displays |-> FALSE, overwrite |-> TRUE, mode |-> "Stretch",
               images |-> <<>>]
    /\ exists = FALSE
    /\ output = NoImage
    /\ idx = 0
    /\ slotLog = <<>>
    /\ encoded = "none"
    /\ written = FALSE
    /\ fitArgs = <<0, 0, 0, 0>>
    /\ fitRes = [w |-> 0, h |-> 0, branch |-> "none"]

\* a call of config.normalize()
NormalizeCall ==
    /\ pc = "norm"
    /\ Len(hist) < 2
    /\ hist' = Append(hist, config)
    /\ config' = Normalize(config)
    /\ UNCHANGED <<pc, args, exists, monitors, output, idx, slotLog, encoded,
                   written, fitArgs, fitRes>>

NextNorm == NormalizeCall

SpecNorm == InitNorm /\ [][NextNorm]_vars

---------------------------------------------------------------------------
(* The Fit arm of dest_res as a function of the source size and the        *)
(* display resolution.                                                     *)

LargeDims == {768, 1024, 2048, 2560, 5119}

Dims == (1..MaxDim) \cup LargeDims

InitFit ==
    /\ pc = "fit"
    /\ fitArgs \in Dims \X Dims \X Dims \X Dims
    /\ fitRes = [w |-> 0, h |-> 0, branch |-> "none"]
    /\ config = DefaultConfiguration
    /\ hist = <<>>
    /\ monitors = <<>>
    /\ args = [show_displays |-> FALSE, overwrite |-> TRUE, mode |-> "Fit",
               images |-> <<>>]
    /\ exists = FALSE
    /\ output = NoImage
    /\ idx = 0
    /\ slotLog = <<>>
    /\ encoded = "none"
    /\ written = FALSE

\* dest_res is computed for image.width(), image.height() and display_res
ComputeFit ==
    /\ pc = "fit"
    /\ fitRes' = DestRes(args.mode, fitArgs[1], fitArgs[2], fitArgs[3], fitArgs[4])
    /\ pc' = "done"
    /\ UNCHANGED <<args, exists, monitors, config, hist, output, idx, slotLog,
                   encoded, written, fitArgs>>

NextFit == ComputeFit

SpecFit == InitFit /\ [][NextFit]_vars

---------------------------------------------------------------------------
(* Properties *)

Abs(n) == IF n < 0 THEN 0 - n ELSE n

FailureOutcomes == {"format_err", "decode_err", "resize_err", "copy_err"}

Enumerated == pc \notin {"start", "enum", "panic", "norm", "fit"}

\* C1: when the number of wallpaper arguments differs from the number of
\* detected displays, the run never panics and never reaches the canvas
\* allocation, the compositing loop, the encode or the write: it stays at the
\* count check or has returned, and no output file exists.
MismatchNeverComposes ==
    (Enumerated /\ Len(config.displays) # Len(args.images)) =>
        /\ pc \in {"enumerated", "done"}
        /\ ~output.allocated
        /\ idx = 0 /\ slotLog = <<>>
        /\ encoded = "none"
        /\ ~written

MismatchReturned ==
    /\ pc = "done"
    /\ Len(config.displays) = 2
    /\ Len(args.images) = 3
    /\ ~written

\* C2: from every point of the compositing loop, whatever slots have failed,
\* the run goes on to visit every remaining slot and then attempts the encode.
EverySlotVisitedThenEncode ==
    (pc = "compose") ~> (encoded # "none" /\ Len(slotLog) = Len(args.images))

EncodedAfterFailedSlot ==
    /\ encoded # "none"
    /\ \E i \in DOMAIN slotLog, j \in DOMAIN slotLog :
          i < j /\ slotLog[i] \in FailureOutcomes /\ slotLog[j] = "painted"

\* C3: a step of the loop that logs a failure of an Image slot (format,
\* decode, resize or copy) leaves the canvas exactly as it was.
FailedSlotLeavesCanvas ==
    [][(/\ pc = "compose"
        /\ Len(slotLog') = Len(slotLog) + 1
        /\ slotLog'[Len(slotLog')] \in FailureOutcomes) => output' = output]_vars

CopyFailedOnPaintedCanvas ==
    /\ slotLog # <<>>
    /\ slotLog[Len(slotLog)] = "copy_err"
    /\ output.paints # <<>>

\* C4: the configuration built by the enumeration of a non-empty sequence of
\* displays has bounds equal to the coordinate-wise minimum and maximum of the
\* displays' rectangles.
BoundsIsUnionOfDisplays ==
    (Enumerated /\ hist = <<>> /\ config.displays # <<>>) =>
        LET D == DOMAIN config.displays IN
        /\ \A i \in D : /\ config.bounds.min_x <= config.displays[i].min_x
                        /\ config.bounds.min_y <= config.displays[i].min_y
                        /\ config.bounds.max_x >= config.displays[i].max_x
                        /\ config.bounds.max_y >= config.displays[i].max_y
        /\ \E i \in D : config.bounds.min_x = config.displays[i].min_x
        /\ \E i \in D : config.bounds.min_y = config.displays[i].min_y
        /\ \E i \in D : config.bounds.max_x = config.displays[i].max_x
        /\ \E i \in D : config.bounds.max_y = config.displays[i].max_y

\* C5: normalize leaves the bounds at min_x = min_y = 0 and moves every
\* display by (-bounds.min_x, -bounds.min_y) of the bounds before the call;
\* differences between displays and every resolution are unchanged.
NormalizeTranslatesUniformly ==
    hist # <<>> =>
        LET c0 == hist[1]
            c1 == IF Len(hist) > 1 THEN hist[2] ELSE config
            dx == 0 - c0.bounds.min_x
            dy == 0 - c0.bounds.min_y
            D  == DOMAIN c0.displays
        IN  /\ c1.bounds.min_x = 0 /\ c1.bounds.min_y = 0
            /\ c1.bounds.max_x - c1.bounds.min_x = c0.bounds.max_x - c0.bounds.min_x
            /\ c1.bounds.max_y - c1.bounds.min_y = c0.bounds.max_y - c0.bounds.min_y
            /\ DOMAIN c1.displays = D
            /\ \A i \in D :
                  /\ c1.displays[i].min_x = c0.displays[i].min_x + dx
                  /\ c1.displays[i].max_x = c0.displays[i].max_x + dx
                  /\ c1.displays[i].min_y = c0.displays[i].min_y + dy
                  /\ c1.displays[i].max_y = c0.displays[i].max_y + dy
            /\ \A i \in D, j \in D :
                  /\ c1.displays[i].min_x - c1.displays[j].min_x
                        = c0.displays[i].min_x - c0.displays[j].min_x
                  /\ c1.displays[i].min_y - c1.displays[j].min_y
                        = c0.displays[i].min_y - c0.displays[j].min_y

NormalizedShiftedPair ==
    /\ Len(hist) = 1
    /\ hist[1].bounds.min_x < 0 /\ hist[1].bounds.min_y < 0
    /\ Len(config.displays) = 2
    /\ config.displays[1].min_x # config.displays[2].min_x

\* C6: normalizing a second time changes neither the bounds nor any display.
NormalizeIdempotent == Len(hist) = 2 => config = hist[2]

NormalizedTwice ==
    /\ Len(hist) = 2
    /\ hist[1] # hist[2]
    /\ hist[1].bounds.min_x > 0 /\ hist[1].bounds.min_y < 0
    /\ Len(config.displays) = 2

\* C7: in Fit mode the destination does not exceed the display on either
\* axis, equals it on one axis, and is within one pixel of the exact
\* aspect-preserving value on the other.
FitStaysInsideDisplay ==
    (pc = "done" /\ fitRes.branch \in {"width", "height"}) =>
        LET sw == fitArgs[1]
            sh == fitArgs[2]
            dw == fitArgs[3]
            dh == fitArgs[4]
        IN  /\ fitRes.w <= dw
            /\ fitRes.h <= dh
            /\ \/ fitRes.w = dw /\ Abs(fitRes.h * sw - sh * dw) <= sw
               \/ fitRes.h = dh /\ Abs(fitRes.w * sh - sw * dh) <= sh

\* the two ratios, as f32, differ by no more than f32::EPSILON either way
NearTie ==
    LET width_ratio  == F32Div(fitArgs[1], fitArgs[3])
        height_ratio == F32Div(fitArgs[2], fitArgs[4])
    IN  /\ ~ExceedsByEpsilon(width_ratio, height_ratio)
        /\ ~ExceedsByEpsilon(height_ratio, width_ratio)

\* C8 as stated: on equal or near-equal ratios the width-constrained arm is
\* taken, ow = dw and oh = round(sh / width_ratio).
NearTieTakesWidthBranch ==
    (pc = "done" /\ fitRes.branch # "none" /\ NearTie) =>
        /\ fitRes.w = fitArgs[3]
        /\ fitRes.h = F32RoundU32(F32DivF(fitArgs[2], F32Div(fitArgs[1], fitArgs[3])))

\* C8 amended: on equal or near-equal ratios the height-constrained arm is
\* taken, ow = round(sw / height_ratio) and oh = dh.
NearTieTakesHeightBranch ==
    (pc = "done" /\ fitRes.branch # "none" /\ NearTie) =>
        /\ fitRes.branch = "height"
        /\ fitRes.w = F32RoundU32(F32DivF(fitArgs[1], F32Div(fitArgs[2], fitArgs[4])))
        /\ fitRes.h = fitArgs[4]

NearTieNotExact ==
    /\ pc = "done" /\ fitRes.branch # "none"
    /\ NearTie
    /\ fitArgs[1] * fitArgs[4] # fitArgs[2] * fitArgs[3]

\* C9: every copied image sits at the display's minimum plus half the slack
\* on each axis where it is smaller, lies inside the display's rectangle, and
\* leaves bars that differ by at most one pixel.
CopyCentredInsideDisplay ==
    \A k \in DOMAIN output.paints :
        LET p  == output.paints[k]
            d  == config.displays[p.slot]
            dw == d.max_x - d.min_x
            dh == d.max_y - d.min_y
        IN  p.what = "image" =>
              /\ p.x = d.min_x + (IF p.w < dw THEN (dw - p.w) \div 2 ELSE 0)
              /\ p.y = d.min_y + (IF p.h < dh THEN (dh - p.h) \div 2 ELSE 0)
              /\ d.min_x <= p.x /\ p.x + p.w <= d.max_x
              /\ d.min_y <= p.y /\ p.y + p.h <= d.max_y
              /\ Abs((p.x - d.min_x) - (d.max_x - (p.x + p.w))) <= 1
              /\ Abs((p.y - d.min_y) - (d.max_y - (p.y + p.h))) <= 1

\* C10: after get_display_configuration and normalize every display has
\* 0 <= min <= max <= bounds.max on both axes and lies inside the canvas
\* allocated from bounds.resolution(); no Stretch- or Fill-mode copy fails,
\* and every copy and every colour fill is the whole display rectangle,
\* nothing of it clipped away.
NormalizedDisplaysInsideCanvas ==
    output.allocated =>
        /\ \A k \in DOMAIN slotLog : slotLog[k] # "copy_err"
        /\ \A i \in DOMAIN config.displays :
              LET d == config.displays[i] IN
              /\ 0 <= d.min_x /\ d.min_x <= d.max_x /\ d.max_x <= config.bounds.max_x
              /\ 0 <= d.min_y /\ d.min_y <= d.max_y /\ d.max_y <= config.bounds.max_y
              /\ d.max_x <= output.width /\ d.max_y <= output.height
        /\ \A k \in DOMAIN output.paints :
              LET p == output.paints[k]
                  d == config.displays[p.slot]
              IN  /\ p.x = d.min_x /\ p.x + p.w = d.max_x
                  /\ p.y = d.min_y /\ p.y + p.h = d.max_y

FilledAwayFromOrigin ==
    /\ output.allocated
    /\ slotLog = <<"painted", "filled">>
    /\ hist[1].bounds.min_y < 0
    /\ hist[1].displays[1].min_x > 0
    /\ hist[1].displays[2].min_x > 0

=============================================================================
